---- MODULE Spec2Model ----
(***************************************************************************)
(* State-machine model of two classes of traKmeter's common code:          *)
(*                                                                         *)
(*   GenericMeterSegment  Source/common/widgets/generic_meter_segment.cpp  *)
(*   Dither               Source/common/audio/dither.h (declaration only;  *)
(*                        the bodies follow the design document)           *)
(*                                                                         *)
(* Floating-point values are modelled as exact fractions <<num, den>> with *)
(* den > 0 in lowest terms; <<0, 0>> is the IEEE not-a-number.  Rounding   *)
(* of the float arithmetic is not modelled.                                *)
(***************************************************************************)
EXTENDS Integers, Sequences, FiniteSets, TLC

\* ------------------------------------------------------------------------
\* float arithmetic (IEEE comparison semantics, exact fractions)
\* ------------------------------------------------------------------------

RECURSIVE GCD(_, _)
GCD(a, b) == IF b = 0 THEN a ELSE GCD(b, a % b)

Abs(n) == IF n < 0 THEN -n ELSE n

NaN == <<0, 0>>

IsNaN(a) == a[2] = 0

\* fraction n/d (d # 0) in lowest terms with a positive denominator
Frac(n, d) ==
    LET s == IF d < 0 THEN -1 ELSE 1
        g == GCD(Abs(n), Abs(d))
    IN  <<(s * n) \div g, (s * d) \div g>>

F(n) == <<n, 1>>

FAdd(a, b) == IF IsNaN(a) \/ IsNaN(b) THEN NaN
              ELSE Frac(a[1] * b[2] + b[1] * a[2], a[2] * b[2])

FSub(a, b) == IF IsNaN(a) \/ IsNaN(b) THEN NaN
              ELSE Frac(a[1] * b[2] - b[1] * a[2], a[2] * b[2])

FMul(a, b) == IF IsNaN(a) \/ IsNaN(b) THEN NaN
              ELSE Frac(a[1] * b[1], a[2] * b[2])

\* a / b; 0/0 is NaN as in IEEE.  x/0 with x # 0 (an infinity) does not
\* occur: setLevels divides by thresholdRange only when lowerThreshold <=
\* normalLevel < upperThreshold, or when one of them is a NaN.
FDiv(a, b) == IF IsNaN(a) \/ IsNaN(b) \/ b[1] = 0 THEN NaN
              ELSE Frac(a[1] * b[2], a[2] * b[1])

\* a >= b, a < b, a <= b, a != b of C++: every ordered comparison with a
\* NaN is false, and NaN != x is true for every x
FGe(a, b) == ~IsNaN(a) /\ ~IsNaN(b) /\ a[1] * b[2] >= b[1] * a[2]
FLt(a, b) == ~IsNaN(a) /\ ~IsNaN(b) /\ a[1] * b[2] < b[1] * a[2]
FLe(a, b) == ~IsNaN(a) /\ ~IsNaN(b) /\ a[1] * b[2] <= b[1] * a[2]
FNe(a, b) == IsNaN(a) \/ IsNaN(b) \/ a # b

FAbs(a) == <<Abs(a[1]), a[2]>>

\* ------------------------------------------------------------------------
\* GenericMeterSegment
\* ------------------------------------------------------------------------

VARIABLES
    lowerThreshold,      \* float
    thresholdRange,      \* float
    upperThreshold,      \* float
    hasHighestLevel,     \* bool
    lightPeakMarker,     \* bool
    fBrightness,         \* float
    fBrightnessOutline,  \* float
    fHue,                \* float
    colPeak,             \* Colour
    repaintRequested,    \* did the last operation call repaint()?
    atRepaint,           \* what paint() reads, as of the last repaint()
    lastCall,            \* the last operation and its arguments
    repeated             \* lastCall is a setLevels with the arguments of
                         \* the setLevels call right before it

segvars == <<lowerThreshold, thresholdRange, upperThreshold, hasHighestLevel,
             lightPeakMarker, fBrightness, fBrightnessOutline, fHue, colPeak,
             repaintRequested, atRepaint, lastCall, repeated>>

\* the level a caller passes for "no level" (setNormalLevels,
\* setDiscreteLevels, constructor)
MinusInfinityLevel == F(-144)

\* levels passed to setLevels; the normal level may also be a NaN
Levels == {MinusInfinityLevel, F(0), F(1)}
NormalLevels == Levels \cup {NaN}

\* arguments of the constructor and of setThresholds
LowerThresholds == {F(-145), F(0), F(1)}
DisplayRanges == {F(-1), F(1), F(2)}

\* arguments of setColour
ColourSchemes == {<<F(0), "white">>, <<Frac(1, 3), "red">>}

FullBrightness == Frac(97, 100)
FullBrightnessOutline == Frac(90, 100)
\* a dark segment with no brightness at all
DarkBrightnessZero == F(0)

DarkBrightness == Frac(25, 100)
DarkBrightnessOutline == Frac(30, 100)
BrightnessGain == Frac(72, 100)
BrightnessOffset == Frac(25, 100)
BrightnessOutlineGain == Frac(60, 100)
BrightnessOutlineOffset == Frac(30, 100)

\* setLevels, first part, with the discrete level tested against the lower
\* threshold only
SegmentBrightnessNoUpperTest(normalLevel, discreteLevel, lower, upper, range) ==
    IF FGe(normalLevel, upper)
    THEN <<FullBrightness, FullBrightnessOutline>>
    ELSE IF FGe(discreteLevel, lower)
    THEN <<FullBrightness, FullBrightnessOutline>>
    ELSE IF FLt(normalLevel, lower)
    THEN <<DarkBrightness, DarkBrightnessOutline>>
    ELSE LET b == FDiv(FSub(normalLevel, lower), range)
         IN  <<FAdd(FMul(b, BrightnessGain), BrightnessOffset),
               FAdd(FMul(b, BrightnessOutlineGain), BrightnessOutlineOffset)>>

\* setLevels, first part: <<fBrightness, fBrightnessOutline>>
SegmentBrightness(normalLevel, discreteLevel, lower, upper, range) ==
    IF FGe(normalLevel, upper)
    THEN <<FullBrightness, FullBrightnessOutline>>
    ELSE IF FGe(discreteLevel, lower) /\ FLt(discreteLevel, upper)
    THEN <<FullBrightness, FullBrightnessOutline>>
    ELSE IF FLt(normalLevel, lower)
    THEN <<DarkBrightness, DarkBrightnessOutline>>
    ELSE LET b == FDiv(FSub(normalLevel, lower), range)
         IN  <<FAdd(FMul(b, BrightnessGain), BrightnessOffset),
               FAdd(FMul(b, BrightnessOutlineGain), BrightnessOutlineOffset)>>

\* setLevels, second part, with the topmost segment treated like any other
PeakMarkerIgnoringHighest(normalLevelPeak, discreteLevelPeak, lower, upper, highest) ==
    IF FGe(normalLevelPeak, lower) /\ FLt(normalLevelPeak, upper) THEN TRUE
    ELSE IF FGe(discreteLevelPeak, lower) /\ FLt(discreteLevelPeak, upper) THEN TRUE
    ELSE FALSE

\* setLevels, second part: lightPeakMarker
PeakMarker(normalLevelPeak, discreteLevelPeak, lower, upper, highest) ==
    IF highest
    THEN IF FGe(normalLevelPeak, lower) THEN TRUE
         ELSE IF FGe(discreteLevelPeak, lower) THEN TRUE
         ELSE FALSE
    ELSE IF FGe(normalLevelPeak, lower) /\ FLt(normalLevelPeak, upper) THEN TRUE
         ELSE IF FGe(discreteLevelPeak, lower) /\ FLt(discreteLevelPeak, upper) THEN TRUE
         ELSE FALSE

\* setLevels, last part: the condition under which repaint() is called
NeedsRepaint(brightnessOld, brightnessNew, markerOld, markerNew) ==
    FNe(brightnessNew, brightnessOld) \/ (markerNew # markerOld)

\* what paint() draws from
PaintInput(hue, outline, brightness, marker, peakColour) ==
    [hue |-> hue, outline |-> outline, fill |-> brightness,
     marker |-> marker, peakColour |-> peakColour]

\* lightPeakMarker as setThresholds leaves it
ThresholdsPeakMarker(markerOld) == FALSE

\* the whole of setLevels(args) on a segment with the given thresholds
DoSetLevels(op, args, isRepeat) ==
    \E bo \in {SegmentBrightness(args[1], args[2], lowerThreshold,
                                  upperThreshold, thresholdRange)},
       pm \in {PeakMarker(args[3], args[4], lowerThreshold, upperThreshold,
                          hasHighestLevel)} :
        \E rp \in {NeedsRepaint(fBrightness, bo[1], lightPeakMarker, pm)} :
            /\ fBrightness' = bo[1]
            /\ fBrightnessOutline' = bo[2]
            /\ lightPeakMarker' = pm
            /\ repaintRequested' = rp
            /\ atRepaint' = IF rp
                            THEN PaintInput(fHue, bo[2], bo[1], pm, colPeak)
                            ELSE atRepaint
            /\ lastCall' = [op |-> op, args |-> args]
            /\ repeated' = isRepeat
            /\ UNCHANGED <<lowerThreshold, thresholdRange, upperThreshold,
                           hasHighestLevel, fHue, colPeak>>

NoLevels == <<MinusInfinityLevel, MinusInfinityLevel,
              MinusInfinityLevel, MinusInfinityLevel>>

\* the state the constructor leaves: setThresholds, brightness and hue
\* zeroed, setLevels(-144, -144, -144, -144)
SegInit ==
    \E lower \in LowerThresholds, range \in DisplayRanges, highest \in BOOLEAN :
        \E upper \in {FAdd(lower, range)} :
        \E bo \in {SegmentBrightness(NoLevels[1], NoLevels[2], lower, upper, range)},
           pm \in {PeakMarker(NoLevels[3], NoLevels[4], lower, upper, highest)} :
        \E rp \in {NeedsRepaint(F(0), bo[1], ThresholdsPeakMarker(FALSE), pm)} :
            /\ lowerThreshold = lower
            /\ thresholdRange = range
            /\ upperThreshold = upper
            /\ hasHighestLevel = highest
            /\ fHue = F(0)
            /\ colPeak = "white"
            /\ fBrightness = bo[1]
            /\ fBrightnessOutline = bo[2]
            /\ lightPeakMarker = pm
            /\ repaintRequested = rp
            /\ atRepaint = IF rp
                           THEN PaintInput(F(0), bo[2], bo[1], pm, "white")
                           ELSE PaintInput(F(0), F(0), F(0), FALSE, "white")
            /\ lastCall = [op |-> "GenericMeterSegment", args |-> NoLevels]
            /\ repeated = FALSE

setThresholds ==
    \E lower \in LowerThresholds, range \in DisplayRanges, highest \in BOOLEAN :
        /\ lowerThreshold' = lower
        /\ thresholdRange' = range
        /\ upperThreshold' = FAdd(lower, range)
        /\ lightPeakMarker' = ThresholdsPeakMarker(lightPeakMarker)
        /\ hasHighestLevel' = highest
        /\ repaintRequested' = FALSE
        /\ lastCall' = [op |-> "setThresholds", args |-> NoLevels]
        /\ repeated' = FALSE
        /\ UNCHANGED <<fBrightness, fBrightnessOutline, fHue, colPeak, atRepaint>>

setColour ==
    \E scheme \in ColourSchemes :
        /\ fHue' = scheme[1]
        /\ colPeak' = scheme[2]
        /\ repaintRequested' = TRUE
        /\ atRepaint' = PaintInput(scheme[1], fBrightnessOutline, fBrightness,
                                   lightPeakMarker, scheme[2])
        /\ lastCall' = [op |-> "setColour", args |-> NoLevels]
        /\ repeated' = FALSE
        /\ UNCHANGED <<lowerThreshold, thresholdRange, upperThreshold,
                       hasHighestLevel, lightPeakMarker, fBrightness,
                       fBrightnessOutline>>

\* does a setLevels call with these arguments repeat the call before it?
Repeats(args) == lastCall.op = "setLevels" /\ lastCall.args = args

setLevels ==
    \E normalLevel \in NormalLevels, discreteLevel \in Levels,
       normalLevelPeak \in Levels, discreteLevelPeak \in Levels :
        \E args \in {<<normalLevel, discreteLevel, normalLevelPeak, discreteLevelPeak>>} :
            DoSetLevels("setLevels", args, Repeats(args))

setNormalLevels ==
    \E normalLevel \in NormalLevels, normalLevelPeak \in Levels :
        \E args \in {<<normalLevel, MinusInfinityLevel, normalLevelPeak, MinusInfinityLevel>>} :
            DoSetLevels("setLevels", args, Repeats(args))

setDiscreteLevels ==
    \E discreteLevel \in Levels, discreteLevelPeak \in Levels :
        \E args \in {<<MinusInfinityLevel, discreteLevel, MinusInfinityLevel, discreteLevelPeak>>} :
            DoSetLevels("setLevels", args, Repeats(args))

\* ------------------------------------------------------------------------
\* Dither (dither.h declares the class; initialise is the design document's
\* configure, dither its process)
\* ------------------------------------------------------------------------

VARIABLES
    configured,          \* Unconfigured (FALSE) or Configured (TRUE)
    nRandomNumber_1,     \* int: rngStateA
    nRandomNumber_2,     \* int: rngStateB
    dErrorFeedback_1,    \* double
    dErrorFeedback_2,    \* double
    dDcOffset,           \* double: dcOffsetCorrection
    dDitherAmplitude,    \* double
    dNoiseShaping,       \* double: noiseShapingCoefficient
    dWordLength,         \* double: number of quantization bits
    dWordLengthInverted, \* double: quantumInverse, the quantization step
    design,              \* the choices the design document leaves open
    processCalls,        \* number of dither() calls made
    lastResult           \* the last call and what it returned

dithervars == <<configured, nRandomNumber_1, nRandomNumber_2, dErrorFeedback_1,
                dErrorFeedback_2, dDcOffset, dDitherAmplitude, dNoiseShaping,
                dWordLength, dWordLengthInverted, design, processCalls,
                lastResult>>

vars == <<segvars, dithervars>>

\* bounds of the model
MaxBits == 2
MaxProcessCalls == 3

\* modulus, multiplier and increments of the two generators
RngModulus == 8
RngMultiplier == 5
RngIncrementA == 1
RngIncrementB == 3

NumbersOfBits == -1 .. MaxBits
NoiseShapings == {F(0), Frac(1, 2), F(1)}
InputSamples == {Frac(-9, 8), Frac(3, 8)}
SeedPairs == {<<0, 0>>}

\* what process does on an Unconfigured engine: fail fast (debug builds),
\* or one of the two release-build fallbacks
UnconfiguredPolicies == {"failFast", "passThrough", "silence"}

RECURSIVE Pow2(_)
Pow2(n) == IF n <= 0 THEN 1 ELSE 2 * Pow2(n - 1)

\* configure rejecting a word length of one bit as well
InvalidBitsBelowTwo(numberOfBits) == numberOfBits <= 1

\* configure rejects these
InvalidBits(numberOfBits) == numberOfBits <= 0

\* quantumInverse = 1 / 2^(wordLength - 1)
QuantumInverse(numberOfBits) == Frac(1, Pow2(numberOfBits - 1))

\* the deviates lie in [-1, 1), their sum in [-2, 2): an amplitude of a
\* quarter step makes the noise cover one step peak to peak
DitherAmplitude(numberOfBits) == FMul(QuantumInverse(numberOfBits), Frac(1, 4))

\* each deviate has mean -1/RngModulus; the correction removes the bias of
\* their scaled sum
DcOffset(numberOfBits) ==
    FMul(DitherAmplitude(numberOfBits), Frac(2, RngModulus))

\* update of a generator state
NextRandom(state, increment) == (RngMultiplier * state + increment) % RngModulus

\* uniform deviate in [-1, 1) extracted from a generator state
Deviate(state) == Frac(2 * state - RngModulus, RngModulus)

\* floor of a fraction
FFloor(a) == a[1] \div a[2]

\* the multiple of step at or below x
QuantizeTruncating(x, step) ==
    FMul(F(FFloor(FDiv(x, step))), step)

\* the nearest multiple of step
Quantize(x, step) ==
    FMul(F(FFloor(FAdd(FDiv(x, step), Frac(1, 2)))), step)

\* step 1 of process
ShapedInput(input, coefficient, feedback1, feedback2) ==
    FAdd(input, FMul(coefficient, FSub(FMul(F(2), feedback1), feedback2)))

\* step 2 of process, from the updated generator states
DitherDeviate(stateA, stateB, amplitude, offset) ==
    FAdd(FMul(FAdd(Deviate(stateA), Deviate(stateB)), amplitude), offset)

Call(op, arg, outcome, value, shaped, deviate) ==
    [op |-> op, arg |-> arg, outcome |-> outcome, value |-> value,
     shaped |-> shaped, deviate |-> deviate]

NoSample == <<>>

\* a freshly constructed engine
DitherInit ==
    /\ configured = FALSE
    /\ \E seeds \in SeedPairs : nRandomNumber_1 = seeds[1] /\ nRandomNumber_2 = seeds[2]
    /\ dErrorFeedback_1 = F(0)
    /\ dErrorFeedback_2 = F(0)
    /\ dDcOffset = F(0)
    /\ dDitherAmplitude = F(0)
    /\ dNoiseShaping = F(0)
    /\ dWordLength = 0
    /\ dWordLengthInverted = F(0)
    /\ design \in [unconfigured : UnconfiguredPolicies,
                   resetFeedback : BOOLEAN]
    /\ processCalls = 0
    /\ lastResult = Call("Dither", <<>>, "ok", NoSample, F(0), F(0))

initialiseRejected(numberOfBits, noiseShaping) ==
    /\ InvalidBits(numberOfBits)
    /\ lastResult' = Call("initialise", <<numberOfBits, noiseShaping>>,
                          "InvalidConfiguration", NoSample, F(0), F(0))
    /\ UNCHANGED <<configured, nRandomNumber_1, nRandomNumber_2,
                   dErrorFeedback_1, dErrorFeedback_2, dDcOffset,
                   dDitherAmplitude, dNoiseShaping, dWordLength,
                   dWordLengthInverted, design, processCalls>>

\* an accepted configure that keeps the dither amplitude it found
initialiseAcceptedStaleAmplitude(numberOfBits, noiseShaping) ==
    /\ ~InvalidBits(numberOfBits)
    /\ configured' = TRUE
    /\ dWordLength' = numberOfBits
    /\ dWordLengthInverted' = QuantumInverse(numberOfBits)
    /\ dDitherAmplitude' = IF configured THEN dDitherAmplitude
                           ELSE DitherAmplitude(numberOfBits)
    /\ dDcOffset' = DcOffset(numberOfBits)
    /\ dNoiseShaping' = noiseShaping
    /\ dErrorFeedback_1' = IF design.resetFeedback THEN F(0) ELSE dErrorFeedback_1
    /\ dErrorFeedback_2' = IF design.resetFeedback THEN F(0) ELSE dErrorFeedback_2
    /\ lastResult' = Call("initialise", <<numberOfBits, noiseShaping>>,
                          "ok", NoSample, F(0), F(0))
    /\ UNCHANGED <<nRandomNumber_1, nRandomNumber_2, design, processCalls>>

initialiseAccepted(numberOfBits, noiseShaping) ==
    /\ ~InvalidBits(numberOfBits)
    /\ configured' = TRUE
    /\ dWordLength' = numberOfBits
    /\ dWordLengthInverted' = QuantumInverse(numberOfBits)
    /\ dDitherAmplitude' = DitherAmplitude(numberOfBits)
    /\ dDcOffset' = DcOffset(numberOfBits)
    /\ dNoiseShaping' = noiseShaping
    /\ dErrorFeedback_1' = IF design.resetFeedback THEN F(0) ELSE dErrorFeedback_1
    /\ dErrorFeedback_2' = IF design.resetFeedback THEN F(0) ELSE dErrorFeedback_2
    /\ lastResult' = Call("initialise", <<numberOfBits, noiseShaping>>,
                          "ok", NoSample, F(0), F(0))
    /\ UNCHANGED <<nRandomNumber_1, nRandomNumber_2, design, processCalls>>

initialise ==
    \E numberOfBits \in NumbersOfBits, noiseShaping \in NoiseShapings :
        \/ initialiseRejected(numberOfBits, noiseShaping)
        \/ initialiseAccepted(numberOfBits, noiseShaping)

\* process on an Unconfigured engine that passes the input through under
\* every policy
UnconfiguredResultNeverFails(policy, input) ==
    Call("dither", <<input>>, "ok", input, F(0), F(0))

\* process on an Unconfigured engine
UnconfiguredResult(policy, input) ==
    IF policy = "failFast"
    THEN Call("dither", <<input>>, "PreconditionViolation", NoSample, F(0), F(0))
    ELSE IF policy = "passThrough"
    THEN Call("dither", <<input>>, "ok", input, F(0), F(0))
    ELSE Call("dither", <<input>>, "ok", F(0), F(0), F(0))

ditherUnconfigured(input) ==
    /\ ~configured
    /\ lastResult' = UnconfiguredResult(design.unconfigured, input)
    /\ processCalls' = processCalls + 1
    /\ UNCHANGED <<configured, nRandomNumber_1, nRandomNumber_2,
                   dErrorFeedback_1, dErrorFeedback_2, dDcOffset,
                   dDitherAmplitude, dNoiseShaping, dWordLength,
                   dWordLengthInverted, design>>

ditherConfigured(input) ==
    /\ configured
    /\ \E stateA \in {NextRandom(nRandomNumber_1, RngIncrementA)},
          stateB \in {NextRandom(nRandomNumber_2, RngIncrementB)},
          shaped \in {ShapedInput(input, dNoiseShaping, dErrorFeedback_1,
                                  dErrorFeedback_2)} :
        \E deviate \in {DitherDeviate(stateA, stateB, dDitherAmplitude, dDcOffset)} :
        \E quantized \in {Quantize(FAdd(shaped, deviate), dWordLengthInverted)} :
            /\ nRandomNumber_1' = stateA
            /\ nRandomNumber_2' = stateB
            /\ dErrorFeedback_2' = dErrorFeedback_1
            /\ dErrorFeedback_1' = FSub(quantized, shaped)
            /\ lastResult' = Call("dither", <<input>>, "ok", quantized, shaped, deviate)
    /\ processCalls' = processCalls + 1
    /\ UNCHANGED <<configured, dDcOffset, dDitherAmplitude, dNoiseShaping,
                   dWordLength, dWordLengthInverted, design>>

dither ==
    /\ processCalls < MaxProcessCalls
    /\ \E input \in InputSamples :
        \/ ditherUnconfigured(input)
        \/ ditherConfigured(input)

\* the engine while the meter segment is looked at
DitherIdle ==
    /\ configured = FALSE
    /\ nRandomNumber_1 = 0
    /\ nRandomNumber_2 = 0
    /\ dErrorFeedback_1 = F(0)
    /\ dErrorFeedback_2 = F(0)
    /\ dDcOffset = F(0)
    /\ dDitherAmplitude = F(0)
    /\ dNoiseShaping = F(0)
    /\ dWordLength = 0
    /\ dWordLengthInverted = F(0)
    /\ design = [unconfigured |-> "failFast", resetFeedback |-> TRUE]
    /\ processCalls = 0
    /\ lastResult = Call("Dither", <<>>, "ok", NoSample, F(0), F(0))

\* a meter segment while the engine is looked at
SegIdle ==
    /\ lowerThreshold = F(0)
    /\ thresholdRange = F(1)
    /\ upperThreshold = F(1)
    /\ hasHighestLevel = FALSE
    /\ lightPeakMarker = FALSE
    /\ fBrightness = DarkBrightness
    /\ fBrightnessOutline = DarkBrightnessOutline
    /\ fHue = F(0)
    /\ colPeak = "white"
    /\ repaintRequested = TRUE
    /\ atRepaint = PaintInput(F(0), DarkBrightnessOutline, DarkBrightness,
                              FALSE, "white")
    /\ lastCall = [op |-> "GenericMeterSegment", args |-> NoLevels]
    /\ repeated = FALSE

DitherNext ==
    \/ initialise /\ UNCHANGED segvars
    \/ dither /\ UNCHANGED segvars

DitherSpecInit == DitherInit /\ SegIdle

DitherSpec == DitherSpecInit /\ [][DitherNext]_vars

SegNext ==
    \/ setThresholds /\ UNCHANGED dithervars
    \/ setColour /\ UNCHANGED dithervars
    \/ setLevels /\ UNCHANGED dithervars
    \/ setNormalLevels /\ UNCHANGED dithervars
    \/ setDiscreteLevels /\ UNCHANGED dithervars

SegSpecInit == SegInit /\ DitherIdle

SegSpec == SegSpecInit /\ [][SegNext]_vars

\* ------------------------------------------------------------------------
\* GenericMeterSegment: properties
\* ------------------------------------------------------------------------

\* the last operation ran the body of setLevels (on its own, through
\* setNormalLevels or setDiscreteLevels, or from the constructor)
AfterSetLevels == lastCall.op \in {"setLevels", "GenericMeterSegment"}

InThresholds(level) == FGe(level, lowerThreshold) /\ FLt(level, upperThreshold)

IsDark == fBrightness = <<1, 4>> /\ fBrightnessOutline = <<3, 10>>
IsFullyLit == fBrightness = <<97, 100>> /\ fBrightnessOutline = <<9, 10>>

\* C6 as stated: after setLevels with normalLevel < lowerThreshold the
\* segment is dark, whatever the other three levels are.
C6_DarkBelowLower ==
    (AfterSetLevels /\ FLt(lastCall.args[1], lowerThreshold)) => IsDark

\* C6 amended: after setLevels with normalLevel < lowerThreshold the segment
\* is dark, unless normalLevel >= upperThreshold (a negative display range)
\* or the discrete level lies in [lowerThreshold, upperThreshold), in which
\* cases it is fully lit.
C6_DarkBelowLowerUnlessLit ==
    (AfterSetLevels /\ FLt(lastCall.args[1], lowerThreshold))
        => IF FGe(lastCall.args[1], upperThreshold) \/ InThresholds(lastCall.args[2])
           THEN IsFullyLit
           ELSE IsDark

C6_Witness ==
    /\ lastCall.op = "setLevels"
    /\ FLt(lastCall.args[1], lowerThreshold)
    /\ FGe(lastCall.args[2], upperThreshold)
    /\ FGe(lastCall.args[3], lowerThreshold)
    /\ IsDark

\* C7: after setLevels the peak marker is a function of the two peak
\* levels and the thresholds alone: lit iff a peak lies in
\* [lowerThreshold, upperThreshold) or, on the topmost segment, iff a peak
\* is >= lowerThreshold.
C7_PeakMarkerFromPeaks ==
    AfterSetLevels =>
        (lightPeakMarker <=>
            IF hasHighestLevel
            THEN \/ FGe(lastCall.args[3], lowerThreshold)
                 \/ FGe(lastCall.args[4], lowerThreshold)
            ELSE \/ InThresholds(lastCall.args[3])
                 \/ InThresholds(lastCall.args[4]))

C7_Witness ==
    /\ lastCall.op = "setLevels"
    /\ hasHighestLevel
    /\ ~InThresholds(lastCall.args[3])
    /\ FGe(lastCall.args[3], upperThreshold)
    /\ FLt(lowerThreshold, upperThreshold)
    /\ lightPeakMarker
    /\ repeated

\* C8 as stated: setLevels requests a repaint iff the call changed
\* fBrightness or lightPeakMarker, and a call repeating the arguments of the
\* call before it requests no repaint.
C8_RepaintIffChanged ==
    /\ [][lastCall'.op = "setLevels" =>
            (repaintRequested' <=> (\/ fBrightness' # fBrightness
                                    \/ lightPeakMarker' # lightPeakMarker))]_vars
    /\ [](repeated => ~repaintRequested)

\* C8 without NaN: the statement of C8 holds of every call that leaves
\* fBrightness a number.
C8_RepaintIffChangedUnlessNaN ==
    /\ [][(lastCall'.op = "setLevels" /\ ~IsNaN(fBrightness')) =>
            (repaintRequested' <=> (\/ fBrightness' # fBrightness
                                    \/ lightPeakMarker' # lightPeakMarker))]_vars
    /\ []((repeated /\ ~IsNaN(fBrightness)) => ~repaintRequested)

\* C9: the constructor always requests a repaint.
C9_ConstructorRepaints ==
    lastCall.op = "GenericMeterSegment" => repaintRequested

C9_Witness ==
    /\ lastCall.op = "GenericMeterSegment"
    /\ repaintRequested
    /\ FLt(MinusInfinityLevel, lowerThreshold)
    /\ fBrightness = <<1, 4>>
    /\ atRepaint.fill = <<1, 4>>
    /\ ~lightPeakMarker

\* C10 as stated: what paint would draw is what was in effect at the most
\* recent repaint request.
C10_PaintedIsCurrent ==
    atRepaint = PaintInput(fHue, fBrightnessOutline, fBrightness,
                           lightPeakMarker, colPeak)

\* ------------------------------------------------------------------------
\* Dither: properties
\* ------------------------------------------------------------------------

AfterDither == lastResult.op = "dither"
AfterInitialise == lastResult.op = "initialise"

Succeeded == lastResult.outcome = "ok" /\ lastResult.value # NoSample

configuration == <<configured, dWordLength, dWordLengthInverted,
                   dDitherAmplitude, dDcOffset, dNoiseShaping>>

engine == <<configured, nRandomNumber_1, nRandomNumber_2, dErrorFeedback_1,
            dErrorFeedback_2, dDcOffset, dDitherAmplitude, dNoiseShaping,
            dWordLength, dWordLengthInverted>>

C2_RejectedConfigure ==
    /\ [](AfterInitialise =>
            (lastResult.outcome = "InvalidConfiguration" <=> lastResult.arg[1] <= 0))
    /\ [][(lastResult'.op = "initialise"
           /\ lastResult'.outcome = "InvalidConfiguration")
          => UNCHANGED configuration]_vars
    /\ []((AfterDither /\ configured) => Succeeded)

C2_Witness ==
    /\ AfterInitialise
    /\ lastResult.outcome = "InvalidConfiguration"
    /\ lastResult.arg[1] = 0
    /\ configured
    /\ dWordLength = 1
    /\ dDitherAmplitude = <<1, 4>>

HalfStep == FMul(dWordLengthInverted, <<1, 2>>)

C10_OnlySetThresholdsGoesStale ==
    [][(lastCall'.op # "setThresholds" /\ C10_PaintedIsCurrent)
        => C10_PaintedIsCurrent']_vars

====
